---- MODULE Spec2Model ----
(***************************************************************************)
(* Presale ledger (src/instructions.rs, src/state.rs, src/context.rs) and  *)
(* Distribution ledger (src/ClaimContract.rs) as state machines.           *)
(*                                                                         *)
(* Every instruction handler is one action.  A handler that returns Err    *)
(* leaves the ledger account untouched: the runtime discards the account   *)
(* changes of a failed instruction, so an early `?` / require! after a     *)
(* mutation still commits nothing.  A handler is an operator from the      *)
(* account and the call's inputs to the error it returns (or Ok) and the   *)
(* account it leaves; the action of an instruction applies that operator.  *)
(***************************************************************************)
EXTENDS Integers, Sequences, FiniteSets, TLC

VARIABLES
    presale,        \* the Presale account (state.rs)
    presale_usdt,   \* amount held by the custody token account presale_usdt
    paid_in,        \* per user: total moved into custody by contribute's transfer
    paid_out,       \* per user: total moved out of custody by refund's transfer
    refund_ok,      \* per user: number of refund calls that returned Ok
    withdrawn,      \* total moved to the owner by withdraw_funds
    distribution_state, \* the DistributionState account (ClaimContract.rs)
    token_account,  \* amount held by the token account that is distributed
    calc_tokens,    \* total_tokens as read by the calculate_allocations that returned Ok
    latest_amount,  \* per user: amount of the latest batch_set_contributions that named it
    claim_ok,       \* per identity: number of claim calls that returned Ok
    received,       \* per identity: total moved to it by claim's transfer
    claim_frame     \* the claim instruction in progress, statement by statement

presale_vars == <<presale, presale_usdt, paid_in, paid_out, refund_ok, withdrawn>>
distribution_vars ==
    <<distribution_state, token_account, calc_tokens, latest_amount, claim_ok, received, claim_frame>>
vars == <<presale_vars, distribution_vars>>

----------------------------------------------------------------------------
\* Bounds of the model.

\* u64::MAX scaled down: every u64 of the model lives in 0..U64Max.  It lies
\* above MAX_USERS, so that a presale can take a contribution from more than
\* MAX_USERS participants.
U64Max == 2047
\* Largest ordinary amount, cap or minimum an instruction is called with.
MaxAmount == 2
\* Largest min_contribution an instruction is called with.
MaxMin == 1
\* Largest hard cap an instruction is called with.
MaxHardCap == 2
\* Longest tier list initialize is called with.
MaxInitTiers == 2
\* Longest batch bulk_assign_tiers is called with.
MaxBulk == 2
\* Largest ordinary contribution batch_set_contributions is called with.
MaxContribution == 3
\* Longest batch batch_set_contributions is called with, and largest max_batch_size.
MaxBatch == 2
\* Largest balance the distributed token account is funded to.
MaxTokens == 3
\* The tier running totals grow without limit through cycles of remove, assign
\* and update_user_tier; the model follows them up to this value.
MaxTierTotal == 2

\* Program constants.
MAX_TIERS == 10
MAX_USERS == 1000
MAX_TIER_NAME_LENGTH == 32
MAX_BULK_ASSIGN == 50

----------------------------------------------------------------------------
\* Identities and inputs.

OwnerKey == "owner"
Users == {"u1", "u2"}
Identities == {OwnerKey} \cup Users
\* Pubkey::default()
DefaultKey == "default"

\* Tier names are strings: sequences of characters.
LongName == [i \in 1..(MAX_TIER_NAME_LENGTH + 1) |-> "x"]
RawNames == { <<"G">>, <<"s">>, <<" ", "s">>, LongName }

Amounts == (0..MaxAmount) \cup {U64Max}
Caps == 0..MaxAmount
Mins == 0..MaxMin
HardCaps == 0..MaxHardCap

RECURSIVE SeqsUpTo(_, _)
SeqsUpTo(S, n) ==
    IF n = 0 THEN { <<>> }
    ELSE LET shorter == SeqsUpTo(S, n - 1)
         IN  shorter \cup { Append(q, x) : q \in { r \in shorter : Len(r) = n - 1 }, x \in S }

----------------------------------------------------------------------------
\* Maps (BTreeMap) as functions with a finite domain.

EmptyMap == [k \in {} |-> 0]
Insert(m, k, v) == [x \in (DOMAIN m) \cup {k} |-> IF x = k THEN v ELSE m[x]]
Remove(m, k) == [x \in (DOMAIN m) \ {k} |-> m[x]]
GetOr(m, k, d) == IF k \in DOMAIN m THEN m[k] ELSE d

RECURSIVE SumMap(_)
SumMap(m) ==
    IF DOMAIN m = {} THEN 0
    ELSE LET k == CHOOSE x \in DOMAIN m : TRUE
         IN  m[k] + SumMap(Remove(m, k))

RECURSIVE SumSeq(_)
SumSeq(s) == IF s = <<>> THEN 0 ELSE Head(s) + SumSeq(Tail(s))

----------------------------------------------------------------------------
\* String helpers.

\* str::to_lowercase on the model's alphabet
to_lowercase(s) == [i \in 1..Len(s) |-> IF s[i] = "G" THEN "g" ELSE s[i]]

\* str::trim: strips leading and trailing whitespace
RECURSIVE trim(_)
trim(s) ==
    IF s = <<>> THEN s
    ELSE IF Head(s) = " " THEN trim(Tail(s))
    ELSE IF s[Len(s)] = " " THEN trim(SubSeq(s, 1, Len(s) - 1))
    ELSE s

\* tier_name.trim().to_lowercase()
normalized(tier_name) == to_lowercase(trim(tier_name))

\* error.rs validate_tier_name: every char ASCII alphanumeric or '_'
validate_tier_name(name) == \A i \in 1..Len(name) : name[i] # " "

----------------------------------------------------------------------------
\* The Presale account.

DefaultPresale ==
    [ is_initialized |-> FALSE,
      owner |-> DefaultKey,
      min_contribution |-> 0,
      hard_cap |-> 0,
      total_contributions |-> 0,
      is_active |-> FALSE,
      is_closed |-> FALSE,
      refunds_allowed |-> FALSE,
      paused |-> FALSE,
      whitelist |-> EmptyMap,
      tiers |-> EmptyMap,
      contributions |-> EmptyMap,
      refunded |-> EmptyMap,
      contributors |-> <<>>,
      tier_total_contributions |-> EmptyMap ]

Ok == "Ok"

\* an owner constraint that lets every signer through
OwnerConstraint_anyone(p, caller) == "Ok"

\* has_one = owner on an owner: Signer account (context.rs)
OwnerConstraint(p, caller) == IF caller = p.owner THEN Ok ELSE "ConstraintHasOne"

\* Outcome of a handler: the error (or Ok) and the account as the handler leaves it.
Res(err, p) == [err |-> err, p |-> p]
Fail(err, p) == [err |-> err, p |-> p]

\* u64 addition under the build's overflow-checks setting: a panic when the
\* checks are compiled in, a wrap-around otherwise.
WrapAdd(a, b) == (a + b) % (U64Max + 1)
WrapSub(a, b) == (a - b + U64Max + 1) % (U64Max + 1)

----------------------------------------------------------------------------
\* initialize

\* the for loop of initialize over tier_names, from index i
RECURSIVE initialize_tiers(_, _, _, _)
initialize_tiers(tiers, tier_names, tier_max_contributions, i) ==
    IF i > Len(tier_names) THEN [err |-> Ok, tiers |-> tiers]
    ELSE IF Len(tier_names[i]) > MAX_TIER_NAME_LENGTH
        THEN [err |-> "TierNameTooLong", tiers |-> tiers]
    ELSE IF normalized(tier_names[i]) \in DOMAIN tiers
        THEN [err |-> "TierAlreadyExists", tiers |-> tiers]
    ELSE IF tier_max_contributions[i] = 0
        THEN [err |-> "InvalidMaxContribution", tiers |-> tiers]
    ELSE initialize_tiers(Insert(tiers, normalized(tier_names[i]), tier_max_contributions[i]),
                          tier_names, tier_max_contributions, i + 1)

initialize(p, owner, tier_names, tier_max_contributions, min_contribution, hard_cap, overflow_checks) ==
    LET true_sum == SumSeq(tier_max_contributions)
        sum_tier_max == true_sum % (U64Max + 1)
        loop == initialize_tiers(p.tiers, tier_names, tier_max_contributions, 1)
    IN
    IF p.is_initialized THEN Fail("AccountAlreadyInUse", p)
    ELSE IF min_contribution = 0 THEN Fail("InvalidMinContribution", p)
    ELSE IF hard_cap = 0 THEN Fail("InvalidHardCap", p)
    ELSE IF Len(tier_names) > MAX_TIERS THEN Fail("ExceedsMaxTiers", p)
    ELSE IF Len(tier_names) # Len(tier_max_contributions) THEN Fail("TierDataMismatch", p)
    ELSE IF true_sum > U64Max /\ overflow_checks THEN Fail("Panic", p)
    ELSE IF hard_cap < sum_tier_max THEN Fail("HardCapLessThanTierMax", p)
    ELSE IF loop.err # Ok THEN Fail(loop.err, p)
    ELSE Res(Ok, [p EXCEPT !.owner = owner,
                           !.min_contribution = min_contribution,
                           !.hard_cap = hard_cap,
                           !.total_contributions = 0,
                           !.is_active = TRUE,
                           !.is_closed = FALSE,
                           !.refunds_allowed = FALSE,
                           !.paused = FALSE,
                           !.is_initialized = TRUE,
                           !.tiers = loop.tiers])

----------------------------------------------------------------------------
\* Tier registry and whitelist

create_tier(p, caller, tier_name, max_contribution) ==
    IF OwnerConstraint(p, caller) # Ok THEN Fail(OwnerConstraint(p, caller), p)
    ELSE IF ~validate_tier_name(tier_name) THEN Fail("InvalidTierNameFormat", p)
    ELSE IF ~(Cardinality(DOMAIN p.tiers) < MAX_TIERS) THEN Fail("ExceedsMaxTiers", p)
    ELSE IF Len(tier_name) > MAX_TIER_NAME_LENGTH THEN Fail("TierNameTooLong", p)
    ELSE IF max_contribution = 0 THEN Fail("InvalidMaxContribution", p)
    ELSE IF normalized(tier_name) \in DOMAIN p.tiers THEN Fail("TierAlreadyExists", p)
    ELSE Res(Ok, [p EXCEPT !.tiers = Insert(@, normalized(tier_name), max_contribution)])

\* assign_tier that lets one entry more than MAX_USERS in
assign_tier_one_more(p, caller, user, tier_name) ==
    IF OwnerConstraint(p, caller) # Ok THEN Fail(OwnerConstraint(p, caller), p)
    ELSE IF Len(tier_name) > MAX_TIER_NAME_LENGTH THEN Fail("TierNameTooLong", p)
    ELSE IF normalized(tier_name) \notin DOMAIN p.tiers THEN Fail("TierDoesNotExist", p)
    ELSE IF user \in DOMAIN p.whitelist THEN Fail("UserAlreadyWhitelisted", p)
    ELSE IF ~(Cardinality(DOMAIN p.whitelist) <= MAX_USERS) THEN Fail("ExceedsMaxUsers", p)
    ELSE Res(Ok, [p EXCEPT !.whitelist = Insert(@, user, normalized(tier_name))])

assign_tier(p, caller, user, tier_name) ==
    IF OwnerConstraint(p, caller) # Ok THEN Fail(OwnerConstraint(p, caller), p)
    ELSE IF Len(tier_name) > MAX_TIER_NAME_LENGTH THEN Fail("TierNameTooLong", p)
    ELSE IF normalized(tier_name) \notin DOMAIN p.tiers THEN Fail("TierDoesNotExist", p)
    ELSE IF user \in DOMAIN p.whitelist THEN Fail("UserAlreadyWhitelisted", p)
    ELSE IF ~(Cardinality(DOMAIN p.whitelist) < MAX_USERS) THEN Fail("ExceedsMaxUsers", p)
    ELSE Res(Ok, [p EXCEPT !.whitelist = Insert(@, user, normalized(tier_name))])

\* validation that looks at the pair i only and lets the rest of the batch through
bulk_validate_first_only(p, users, tiers, i) ==
    IF i > Len(users) THEN "Ok"
    ELSE IF Len(tiers[i]) > MAX_TIER_NAME_LENGTH THEN "TierNameTooLong"
    ELSE IF normalized(tiers[i]) \notin DOMAIN p.tiers THEN "TierDoesNotExist"
    ELSE IF users[i] \in DOMAIN p.whitelist THEN "UserAlreadyWhitelisted"
    ELSE "Ok"

\* first loop of bulk_assign_tiers: validation of pair i.. against the account
RECURSIVE bulk_validate(_, _, _, _)
bulk_validate(p, users, tiers, i) ==
    IF i > Len(users) THEN Ok
    ELSE IF Len(tiers[i]) > MAX_TIER_NAME_LENGTH THEN "TierNameTooLong"
    ELSE IF normalized(tiers[i]) \notin DOMAIN p.tiers THEN "TierDoesNotExist"
    ELSE IF users[i] \in DOMAIN p.whitelist THEN "UserAlreadyWhitelisted"
    ELSE bulk_validate(p, users, tiers, i + 1)

\* Index of the last pair of the batch that names user.
LastPair(users, user) ==
    CHOOSE k \in 1..Len(users) :
        /\ users[k] = user
        /\ \A j \in (k + 1)..Len(users) : users[j] # user

\* second loop of bulk_assign_tiers: the inserts of the pairs i.. in their
\* order, so that of the pairs that name one user the last one stays
bulk_insert(whitelist, users, tiers, i) ==
    LET named == { users[k] : k \in i..Len(users) }
    IN  [x \in (DOMAIN whitelist) \cup named |->
            IF x \in named THEN normalized(tiers[LastPair(users, x)]) ELSE whitelist[x]]

bulk_assign_tiers(p, caller, users, tiers) ==
    IF OwnerConstraint(p, caller) # Ok THEN Fail(OwnerConstraint(p, caller), p)
    ELSE IF Len(users) # Len(tiers) THEN Fail("MismatchUsersTiers", p)
    ELSE IF Len(users) > MAX_BULK_ASSIGN THEN Fail("ExceedsBulkAssignLimit", p)
    ELSE IF Cardinality(DOMAIN p.whitelist) + Len(users) > MAX_USERS
        THEN Fail("ExceedsMaxUsers", p)
    ELSE IF bulk_validate(p, users, tiers, 1) # Ok
        THEN Fail(bulk_validate(p, users, tiers, 1), p)
    ELSE Res(Ok, [p EXCEPT !.whitelist = bulk_insert(@, users, tiers, 1)])

remove_user_from_whitelist(p, caller, user) ==
    IF OwnerConstraint(p, caller) # Ok THEN Fail(OwnerConstraint(p, caller), p)
    ELSE IF user \notin DOMAIN p.whitelist THEN Fail("UserNotWhitelisted", p)
    ELSE Res(Ok, [p EXCEPT !.whitelist = Remove(@, user)])

update_user_tier(p, caller, user, new_tier) ==
    LET normalized_tier == normalized(new_tier)
        current_tier == p.whitelist[user]
        user_contribution == GetOr(p.contributions, user, 0)
        new_tier_max == p.tiers[normalized_tier]
        ttc == p.tier_total_contributions
        has_old == current_tier \in DOMAIN ttc
        after_sub == IF has_old
                     THEN [ttc EXCEPT ![current_tier] = @ - user_contribution]
                     ELSE ttc
        new_tier_total == GetOr(after_sub, normalized_tier, 0) + user_contribution
    IN
    IF OwnerConstraint(p, caller) # Ok THEN Fail(OwnerConstraint(p, caller), p)
    ELSE IF Len(new_tier) > MAX_TIER_NAME_LENGTH THEN Fail("TierNameTooLong", p)
    ELSE IF normalized_tier \notin DOMAIN p.tiers THEN Fail("TierDoesNotExist", p)
    ELSE IF user \notin DOMAIN p.whitelist THEN Fail("UserNotWhitelisted", p)
    ELSE IF current_tier = normalized_tier THEN Res(Ok, p)
    ELSE IF user_contribution > new_tier_max THEN Fail("ExceedsNewTierMaxContribution", p)
    ELSE IF user_contribution > 0 /\ has_old /\ ttc[current_tier] < user_contribution
        THEN Fail("Overflow", p)
    ELSE IF user_contribution > 0 /\ new_tier_total > U64Max THEN Fail("Overflow", p)
    ELSE Res(Ok, [p EXCEPT
            !.tier_total_contributions =
                IF user_contribution > 0
                THEN Insert(after_sub, normalized_tier, new_tier_total)
                ELSE @,
            !.whitelist = Insert(@, user, normalized_tier)])

----------------------------------------------------------------------------
\* Contribution ledger

\* token::transfer of `amount` out of an account holding `balance`
transfer(balance, amount) == IF balance < amount THEN "InsufficientFunds" ELSE Ok

\* contribute whose hard cap check is off by one
contribute_checks_off_by_one(p, user, amount, user_usdt) ==
    LET user_tier == p.whitelist[user]
        tier_max == p.tiers[user_tier]
        previous_contribution == GetOr(p.contributions, user, 0)
        user_contribution == previous_contribution + amount
    IN
    IF p.paused THEN "PresalePaused"
    ELSE IF ~p.is_active THEN "PresaleNotActive"
    ELSE IF p.is_closed THEN "PresaleClosed"
    ELSE IF user \notin DOMAIN p.whitelist THEN "UserNotWhitelisted"
    ELSE IF user_tier \notin DOMAIN p.tiers THEN "TierDoesNotExist"
    ELSE IF p.total_contributions + amount > U64Max THEN "Overflow"
    ELSE IF p.total_contributions + amount > p.hard_cap + 1 THEN "ExceedsHardCap"
    ELSE IF user_contribution > U64Max THEN "Overflow"
    ELSE IF user_contribution < p.min_contribution THEN "BelowMinContribution"
    ELSE IF user_contribution > tier_max THEN "AboveMaxContribution"
    ELSE IF user_usdt.owner # user THEN "InvalidUserUsdtAccount"
    ELSE Ok

\* the checks of contribute, in the order of the code
contribute_checks(p, user, amount, user_usdt) ==
    LET user_tier == p.whitelist[user]
        tier_max == p.tiers[user_tier]
        previous_contribution == GetOr(p.contributions, user, 0)
        user_contribution == previous_contribution + amount
    IN
    IF p.paused THEN "PresalePaused"
    ELSE IF ~p.is_active THEN "PresaleNotActive"
    ELSE IF p.is_closed THEN "PresaleClosed"
    ELSE IF user \notin DOMAIN p.whitelist THEN "UserNotWhitelisted"
    ELSE IF user_tier \notin DOMAIN p.tiers THEN "TierDoesNotExist"
    ELSE IF p.total_contributions + amount > U64Max THEN "Overflow"
    ELSE IF p.total_contributions + amount > p.hard_cap THEN "ExceedsHardCap"
    ELSE IF user_contribution > U64Max THEN "Overflow"
    ELSE IF user_contribution < p.min_contribution THEN "BelowMinContribution"
    ELSE IF user_contribution > tier_max THEN "AboveMaxContribution"
    ELSE IF user_usdt.owner # user THEN "InvalidUserUsdtAccount"
    ELSE Ok

\* bookkeeping that appends the user to contributors on every contribution
contribute_record_always_pushed(p, user, amount) ==
    LET previous_contribution == GetOr(p.contributions, user, 0)
    IN  [p EXCEPT
            !.contributors = Append(@, user),
            !.contributions = Insert(@, user, previous_contribution + amount),
            !.total_contributions = @ + amount]

\* the bookkeeping of contribute
contribute_record(p, user, amount) ==
    LET previous_contribution == GetOr(p.contributions, user, 0)
    IN  [p EXCEPT
            !.contributors = IF previous_contribution = 0 THEN Append(@, user) ELSE @,
            !.contributions = Insert(@, user, previous_contribution + amount),
            !.total_contributions = @ + amount]

\* contribute that keeps its bookkeeping when the transfer fails
contribute_keeps_bookkeeping(p, user, amount, user_usdt) ==
    IF contribute_checks(p, user, amount, user_usdt) # Ok
        THEN Fail(contribute_checks(p, user, amount, user_usdt), p)
    ELSE IF transfer(user_usdt.amount, amount) # Ok
        THEN Res(transfer(user_usdt.amount, amount), contribute_record(p, user, amount))
    ELSE Res(Ok, contribute_record(p, user, amount))

contribute(p, user, amount, user_usdt) ==
    IF contribute_checks(p, user, amount, user_usdt) # Ok
        THEN Fail(contribute_checks(p, user, amount, user_usdt), p)
    ELSE IF transfer(user_usdt.amount, amount) # Ok
        THEN Fail(transfer(user_usdt.amount, amount), p)
    ELSE Res(Ok, contribute_record(p, user, amount))

----------------------------------------------------------------------------
\* Lifecycle

\* close_presale that leaves is_active set
close_presale_still_active(p, caller, refunds_allowed) ==
    IF OwnerConstraint(p, caller) # Ok THEN Fail(OwnerConstraint(p, caller), p)
    ELSE IF p.paused THEN Fail("PresalePaused", p)
    ELSE IF ~p.is_active THEN Fail("PresaleNotActive", p)
    ELSE IF p.is_closed THEN Fail("PresaleAlreadyClosed", p)
    ELSE Res(Ok, [p EXCEPT !.is_closed = TRUE, !.refunds_allowed = refunds_allowed])

close_presale(p, caller, refunds_allowed) ==
    IF OwnerConstraint(p, caller) # Ok THEN Fail(OwnerConstraint(p, caller), p)
    ELSE IF p.paused THEN Fail("PresalePaused", p)
    ELSE IF ~p.is_active THEN Fail("PresaleNotActive", p)
    ELSE IF p.is_closed THEN Fail("PresaleAlreadyClosed", p)
    ELSE Res(Ok, [p EXCEPT !.is_closed = TRUE,
                           !.is_active = FALSE,
                           !.refunds_allowed = refunds_allowed])

\* withdraw_funds that does not wait for the presale to be closed
withdraw_funds_while_open(p, caller, usdt_balance) ==
    IF OwnerConstraint(p, caller) # Ok THEN Fail(OwnerConstraint(p, caller), p)
    ELSE IF p.paused THEN Fail("PresalePaused", p)
    ELSE IF ~(usdt_balance > 0) THEN Fail("NoFundsToWithdraw", p)
    ELSE Res(Ok, p)

\* usdt_balance is the whole custody balance, so its transfer is always covered
withdraw_funds(p, caller, usdt_balance) ==
    IF OwnerConstraint(p, caller) # Ok THEN Fail(OwnerConstraint(p, caller), p)
    ELSE IF p.paused THEN Fail("PresalePaused", p)
    ELSE IF ~p.is_closed THEN Fail("PresaleNotClosed", p)
    ELSE IF ~(usdt_balance > 0) THEN Fail("NoFundsToWithdraw", p)
    ELSE IF transfer(usdt_balance, usdt_balance) # Ok
        THEN Fail(transfer(usdt_balance, usdt_balance), p)
    ELSE Res(Ok, p)

\* the checks of refund, in the order of the code
refund_checks(p, user) ==
    IF p.paused THEN "PresalePaused"
    ELSE IF ~p.is_closed THEN "PresaleNotClosed"
    ELSE IF ~p.refunds_allowed THEN "RefundsNotAllowed"
    ELSE IF ~(GetOr(p.contributions, user, 0) > 0) THEN "NoContributionsToRefund"
    ELSE IF GetOr(p.refunded, user, FALSE) THEN "AlreadyRefunded"
    ELSE Ok

\* refund that forgets its bookkeeping
refund_record_unmarked(p, user) == p

\* the bookkeeping of refund
refund_record(p, user) ==
    [p EXCEPT !.contributions = Insert(@, user, 0),
              !.refunded = Insert(@, user, TRUE)]

refund(p, user, usdt_balance) ==
    LET contribution == GetOr(p.contributions, user, 0)
    IN
    IF refund_checks(p, user) # Ok THEN Fail(refund_checks(p, user), p)
    ELSE IF transfer(usdt_balance, contribution) # Ok
        THEN Fail(transfer(usdt_balance, contribution), p)
    ELSE Res(Ok, refund_record(p, user))

set_min_contribution(p, caller, new_min) ==
    IF OwnerConstraint(p, caller) # Ok THEN Fail(OwnerConstraint(p, caller), p)
    ELSE IF new_min = 0 THEN Fail("InvalidMinContribution", p)
    ELSE Res(Ok, [p EXCEPT !.min_contribution = new_min])

set_hard_cap(p, caller, new_hard_cap) ==
    IF OwnerConstraint(p, caller) # Ok THEN Fail(OwnerConstraint(p, caller), p)
    ELSE IF new_hard_cap = 0 THEN Fail("InvalidHardCap", p)
    ELSE IF new_hard_cap < p.total_contributions THEN Fail("HardCapLessThanTotal", p)
    ELSE Res(Ok, [p EXCEPT !.hard_cap = new_hard_cap])

pause_presale(p, caller) ==
    IF OwnerConstraint(p, caller) # Ok THEN Fail(OwnerConstraint(p, caller), p)
    ELSE IF p.paused THEN Fail("PresaleAlreadyPaused", p)
    ELSE Res(Ok, [p EXCEPT !.paused = TRUE])

unpause_presale(p, caller) ==
    IF OwnerConstraint(p, caller) # Ok THEN Fail(OwnerConstraint(p, caller), p)
    ELSE IF ~p.paused THEN Fail("PresaleNotPaused", p)
    ELSE Res(Ok, [p EXCEPT !.paused = FALSE])

----------------------------------------------------------------------------
\* The Presale instructions as actions.

\* Signers that try the owner-only instructions.
Callers == {OwnerKey, "u1"}
\* Token accounts a contributor can pass as user_usdt.
UserUsdt == [owner : Users, amount : {0, U64Max}]
\* Tier names bulk_assign_tiers is called with.
BulkNames == { <<" ", "s">>, LongName }

\* The owner constraint is checked when the accounts are loaded, before the
\* handler reads an argument: a call by another signer fails alike for every
\* argument, so one argument stands for all of them.
Args(caller, S) == IF caller = presale.owner THEN S ELSE { CHOOSE x \in S : TRUE }

\* An instruction on an account that initialize has not created yet fails when
\* the account is loaded.
Loaded(r) == IF presale.is_initialized THEN r ELSE Fail("AccountNotInitialized", presale)

\* An instruction that moves no funds.
Ledger(r) ==
    /\ presale' = r.p
    /\ UNCHANGED <<presale_usdt, paid_in, paid_out, refund_ok, withdrawn, distribution_vars>>

\* The account is created by the `init` constraint of Initialize, so the
\* instruction runs its handler once; on an existing account every call fails
\* alike, whatever its arguments.
Call_initialize ==
    \E tier_names \in IF presale.is_initialized THEN { <<>> }
                       ELSE SeqsUpTo(RawNames, MaxInitTiers),
       tier_max_contributions \in IF presale.is_initialized THEN { <<>> }
                                  ELSE SeqsUpTo(Caps, MaxInitTiers),
       min_contribution \in IF presale.is_initialized THEN {1} ELSE Mins,
       hard_cap \in IF presale.is_initialized THEN {1} ELSE HardCaps,
       overflow_checks \in BOOLEAN :
        Ledger(initialize(presale, OwnerKey, tier_names, tier_max_contributions,
                          min_contribution, hard_cap, overflow_checks))

Call_create_tier ==
    \E caller \in Callers :
        \E tier_name \in Args(caller, RawNames), max_contribution \in Args(caller, Caps) :
            Ledger(Loaded(create_tier(presale, caller, tier_name, max_contribution)))

Call_assign_tier ==
    \E caller \in Callers :
        \E user \in Args(caller, Users), tier_name \in Args(caller, RawNames) :
            Ledger(Loaded(assign_tier(presale, caller, user, tier_name)))

Call_bulk_assign_tiers ==
    \E caller \in Callers :
        \E users \in Args(caller, SeqsUpTo(Users, MaxBulk)),
           tiers \in Args(caller, SeqsUpTo(BulkNames, MaxBulk)) :
            Ledger(Loaded(bulk_assign_tiers(presale, caller, users, tiers)))

Call_remove_user_from_whitelist ==
    \E caller \in Callers :
        \E user \in Args(caller, Users) :
            Ledger(Loaded(remove_user_from_whitelist(presale, caller, user)))

Call_update_user_tier ==
    \E caller \in Callers :
        \E user \in Args(caller, Users), new_tier \in Args(caller, RawNames) :
            LET r == Loaded(update_user_tier(presale, caller, user, new_tier))
            IN  /\ \A t \in DOMAIN r.p.tier_total_contributions :
                        r.p.tier_total_contributions[t] <= MaxTierTotal
                /\ Ledger(r)

Call_contribute ==
    \E user \in Users, amount \in Amounts, user_usdt \in UserUsdt :
        LET r == Loaded(contribute(presale, user, amount, user_usdt))
            moved == IF r.err = Ok THEN amount ELSE 0
        IN  /\ presale' = r.p
            /\ presale_usdt' = presale_usdt + moved
            /\ paid_in' = [paid_in EXCEPT ![user] = @ + moved]
            /\ UNCHANGED <<paid_out, refund_ok, withdrawn, distribution_vars>>

Call_close_presale ==
    \E caller \in Callers :
        \E refunds_allowed \in Args(caller, BOOLEAN) :
            Ledger(Loaded(close_presale(presale, caller, refunds_allowed)))

Call_withdraw_funds ==
    \E caller \in Callers :
        LET r == Loaded(withdraw_funds(presale, caller, presale_usdt))
            moved == IF r.err = Ok THEN presale_usdt ELSE 0
        IN  /\ presale' = r.p
            /\ presale_usdt' = presale_usdt - moved
            /\ withdrawn' = withdrawn + moved
            /\ UNCHANGED <<paid_in, paid_out, refund_ok, distribution_vars>>

Call_refund ==
    \E user \in Users :
        LET r == Loaded(refund(presale, user, presale_usdt))
            moved == IF r.err = Ok THEN GetOr(presale.contributions, user, 0) ELSE 0
        IN  /\ presale' = r.p
            /\ presale_usdt' = presale_usdt - moved
            /\ paid_out' = [paid_out EXCEPT ![user] = @ + moved]
            /\ refund_ok' = [refund_ok EXCEPT ![user] = @ + (IF r.err = Ok THEN 1 ELSE 0)]
            /\ UNCHANGED <<paid_in, withdrawn, distribution_vars>>

Call_set_min_contribution ==
    \E caller \in Callers :
        \E new_min \in Args(caller, Mins) :
            Ledger(Loaded(set_min_contribution(presale, caller, new_min)))

Call_set_hard_cap ==
    \E caller \in Callers :
        \E new_hard_cap \in Args(caller, HardCaps) :
            Ledger(Loaded(set_hard_cap(presale, caller, new_hard_cap)))

Call_pause_presale ==
    \E caller \in Callers :
        Ledger(Loaded(pause_presale(presale, caller)))

Call_unpause_presale ==
    \E caller \in Callers :
        Ledger(Loaded(unpause_presale(presale, caller)))

----------------------------------------------------------------------------
\* The Distribution ledger (ClaimContract.rs).

DefaultDistributionState ==
    [ is_initialized |-> FALSE,
      owner |-> DefaultKey,
      token_mint |-> DefaultKey,
      total_raised |-> 0,
      allocation_calculated |-> FALSE,
      claim_enabled |-> FALSE,
      max_batch_size |-> 0,
      claim_period_open |-> FALSE,
      paused |-> FALSE,
      contributors |-> <<>> ]

Contributor(user, contribution, allocation) ==
    [user |-> user, contribution |-> contribution, allocation |-> allocation]

\* contributors.iter().find(|c| c.user == user): index of the first record of
\* user, 0 when there is none
FindContributor(contributors, user) ==
    IF \E i \in 1..Len(contributors) : contributors[i].user = user
    THEN CHOOSE i \in 1..Len(contributors) :
            /\ contributors[i].user = user
            /\ \A j \in 1..(i - 1) : contributors[j].user # user
    ELSE 0

\* require_keys_eq!(state.owner, authority)
IsOwner(st, authority) == st.owner = authority

initialize_distribution(st, owner, max_batch_size) ==
    IF st.is_initialized THEN Fail("AccountAlreadyInUse", st)
    ELSE IF ~(max_batch_size > 0) THEN Fail("InvalidBatchSize", st)
    ELSE Res(Ok, [st EXCEPT !.is_initialized = TRUE,
                            !.owner = owner,
                            !.token_mint = DefaultKey,
                            !.total_raised = 0,
                            !.allocation_calculated = FALSE,
                            !.claim_enabled = FALSE,
                            !.max_batch_size = max_batch_size,
                            !.claim_period_open = FALSE,
                            !.paused = FALSE,
                            !.contributors = <<>>])

set_token(st, authority, token_mint) ==
    IF ~IsOwner(st, authority) THEN Fail("NotOwner", st)
    ELSE IF st.paused THEN Fail("ContractPaused", st)
    ELSE IF st.claim_period_open THEN Fail("ClaimPeriodActive", st)
    ELSE IF st.allocation_calculated THEN Fail("AllocationAlreadyCalculated", st)
    ELSE IF token_mint = DefaultKey THEN Fail("InvalidTokenMint", st)
    ELSE Res(Ok, [st EXCEPT !.token_mint = token_mint])

\* One pass of the loop of batch_set_contributions on a known contributor:
\* state.total_raised - contributor.contribution + amount in plain u64
\* arithmetic.  An overflowing step panics when the build has overflow checks
\* and wraps around when it has none.
replace_total(total_raised, contribution, amount, overflow_checks) ==
    LET overflows == \/ total_raised < contribution
                     \/ total_raised - contribution + amount > U64Max
    IN  IF overflows /\ overflow_checks
        THEN [err |-> "Panic", total |-> total_raised]
        ELSE [err |-> Ok, total |-> WrapAdd(WrapSub(total_raised, contribution), amount)]

\* state.total_raised += amount
add_total(total_raised, amount, overflow_checks) ==
    IF total_raised + amount > U64Max /\ overflow_checks
    THEN [err |-> "Panic", total |-> total_raised]
    ELSE [err |-> Ok, total |-> WrapAdd(total_raised, amount)]

\* the loop of batch_set_contributions from index i, seen_users the set so far
RECURSIVE batch_loop(_, _, _, _, _, _)
batch_loop(st, users, amounts, i, seen_users, overflow_checks) ==
    IF i > Len(users) THEN Res(Ok, st)
    ELSE IF users[i] \in seen_users THEN Fail("DuplicateContributor", st)
    ELSE IF ~(amounts[i] > 0) THEN Fail("InvalidAmount", st)
    ELSE
        LET k == FindContributor(st.contributors, users[i])
            t == IF k # 0
                 THEN replace_total(st.total_raised, st.contributors[k].contribution,
                                    amounts[i], overflow_checks)
                 ELSE add_total(st.total_raised, amounts[i], overflow_checks)
            contributors ==
                 IF k # 0
                 THEN [st.contributors EXCEPT ![k].contribution = amounts[i]]
                 ELSE Append(st.contributors, Contributor(users[i], amounts[i], 0))
        IN  IF t.err # Ok THEN Fail(t.err, st)
            ELSE batch_loop([st EXCEPT !.total_raised = t.total,
                                       !.contributors = contributors],
                            users, amounts, i + 1, seen_users \cup {users[i]},
                            overflow_checks)

\* batch_set_contributions that keeps what its loop did before it failed
batch_set_contributions_partial(st, authority, users, amounts, overflow_checks) ==
    LET loop == batch_loop(st, users, amounts, 1, {}, overflow_checks)
    IN
    IF ~IsOwner(st, authority) THEN Fail("NotOwner", st)
    ELSE IF st.paused THEN Fail("ContractPaused", st)
    ELSE IF st.allocation_calculated THEN Fail("AllocationAlreadyCalculated", st)
    ELSE IF Len(users) # Len(amounts) THEN Fail("ArrayLengthMismatch", st)
    ELSE IF ~(Len(users) <= st.max_batch_size) THEN Fail("BatchTooLarge", st)
    ELSE Res(loop.err, loop.p)

\* batch_set_contributions that goes on after the allocations are calculated
batch_set_contributions_unfrozen(st, authority, users, amounts, overflow_checks) ==
    LET loop == batch_loop(st, users, amounts, 1, {}, overflow_checks)
    IN
    IF ~IsOwner(st, authority) THEN Fail("NotOwner", st)
    ELSE IF st.paused THEN Fail("ContractPaused", st)
    ELSE IF Len(users) # Len(amounts) THEN Fail("ArrayLengthMismatch", st)
    ELSE IF ~(Len(users) <= st.max_batch_size) THEN Fail("BatchTooLarge", st)
    ELSE IF loop.err # Ok THEN Fail(loop.err, st)
    ELSE Res(Ok, loop.p)

batch_set_contributions(st, authority, users, amounts, overflow_checks) ==
    LET loop == batch_loop(st, users, amounts, 1, {}, overflow_checks)
    IN
    IF ~IsOwner(st, authority) THEN Fail("NotOwner", st)
    ELSE IF st.paused THEN Fail("ContractPaused", st)
    ELSE IF st.allocation_calculated THEN Fail("AllocationAlreadyCalculated", st)
    ELSE IF Len(users) # Len(amounts) THEN Fail("ArrayLengthMismatch", st)
    ELSE IF ~(Len(users) <= st.max_batch_size) THEN Fail("BatchTooLarge", st)
    ELSE IF loop.err # Ok THEN Fail(loop.err, st)
    ELSE Res(Ok, loop.p)

\* allocation that hands out one token per unit contributed, whatever the balance
allocation_of_unscaled(contribution, total_tokens, total_raised) ==
    IF contribution * total_tokens > U64Max THEN -1
    ELSE contribution

\* contribution.checked_mul(total_tokens)? / total_raised: -1 stands for the
\* None of checked_mul
allocation_of(contribution, total_tokens, total_raised) ==
    IF contribution * total_tokens > U64Max THEN -1
    ELSE (contribution * total_tokens) \div total_raised

\* the loop of calculate_allocations from index i
RECURSIVE allocation_loop(_, _, _, _)
allocation_loop(st, total_tokens, i, allocated_amount) ==
    IF i > Len(st.contributors) THEN [err |-> Ok, p |-> st, allocated |-> allocated_amount]
    ELSE IF ~(st.contributors[i].contribution > 0)
        THEN allocation_loop(st, total_tokens, i + 1, allocated_amount)
    ELSE
        LET allocation == allocation_of(st.contributors[i].contribution, total_tokens,
                                        st.total_raised)
        IN  IF allocation = -1
                THEN [err |-> "Overflow", p |-> st, allocated |-> allocated_amount]
            ELSE IF allocated_amount + allocation > U64Max
                THEN [err |-> "Overflow", p |-> st, allocated |-> allocated_amount]
            ELSE allocation_loop([st EXCEPT !.contributors[i].allocation = allocation],
                                 total_tokens, i + 1, allocated_amount + allocation)

calculate_allocations(st, authority, total_tokens) ==
    LET loop == allocation_loop(st, total_tokens, 1, 0)
    IN
    IF ~IsOwner(st, authority) THEN Fail("NotOwner", st)
    ELSE IF st.paused THEN Fail("ContractPaused", st)
    ELSE IF st.token_mint = DefaultKey THEN Fail("InvalidTokenMint", st)
    ELSE IF ~(st.total_raised > 0) THEN Fail("NoContributions", st)
    ELSE IF st.allocation_calculated THEN Fail("AllocationAlreadyCalculated", st)
    ELSE IF ~(total_tokens > 0) THEN Fail("NoTokenBalance", st)
    ELSE IF loop.err # Ok THEN Fail(loop.err, st)
    ELSE IF ~(loop.allocated <= total_tokens) THEN Fail("AllocationExceedsBalance", st)
    ELSE Res(Ok, [loop.p EXCEPT !.allocation_calculated = TRUE])

\* the checks of claim, in the order of the code
claim_checks(st, authority) ==
    LET k == FindContributor(st.contributors, authority)
    IN
    IF st.paused THEN "ContractPaused"
    ELSE IF ~st.claim_enabled THEN "ClaimingNotEnabled"
    ELSE IF ~st.claim_period_open THEN "ClaimPeriodClosed"
    ELSE IF k = 0 THEN "NotContributor"
    ELSE IF ~(st.contributors[k].allocation > 0) THEN "NothingToClaim"
    ELSE Ok

\* claim that pays out the contribution in place of the allocation
claim_amount_contribution(st, authority) ==
    LET k == FindContributor(st.contributors, authority)
    IN  IF k = 0 THEN 0 ELSE st.contributors[k].contribution

\* claim_amount of claim
claim_amount(st, authority) ==
    LET k == FindContributor(st.contributors, authority)
    IN  IF k = 0 THEN 0 ELSE st.contributors[k].allocation

\* claim that leaves the allocation in place
claim_record_kept(st, authority) == st

\* contributor.allocation = 0
claim_record(st, authority) ==
    [st EXCEPT !.contributors[FindContributor(st.contributors, authority)].allocation = 0]

claim(st, authority, from_balance) ==
    IF claim_checks(st, authority) # Ok THEN Fail(claim_checks(st, authority), st)
    ELSE IF transfer(from_balance, claim_amount(st, authority)) # Ok
        THEN Fail(transfer(from_balance, claim_amount(st, authority)), st)
    ELSE Res(Ok, claim_record(st, authority))

\* The step that opens claims: the owner turns on claim_enabled and
\* claim_period_open once the allocations are calculated.
open_claims(st, authority) ==
    IF ~IsOwner(st, authority) THEN Fail("NotOwner", st)
    ELSE IF st.paused THEN Fail("ContractPaused", st)
    ELSE IF ~st.allocation_calculated THEN Fail("AllocationNotCalculated", st)
    ELSE Res(Ok, [st EXCEPT !.claim_enabled = TRUE, !.claim_period_open = TRUE])

\* The claim instruction statement by statement.  The handler works on the
\* account as deserialized when the instruction starts (state); the account is
\* written back when the handler has returned Ok, and a handler that returns
\* Err leaves nothing behind.

\* No claim instruction in progress; last is the outcome of the latest one
\* that got as far as its transfer.
NoFrame(last) ==
    [ pc |-> "idle", authority |-> DefaultKey, state |-> DefaultDistributionState,
      claim_amount |-> 0, refused |-> 0, last |-> last ]

\* claim that invokes the transfer with the allocation still in place
claim_enter_unzeroed(st, authority, last) ==
    IF claim_checks(st, authority) # Ok THEN NoFrame(last)
    ELSE [ pc |-> "transfer", authority |-> authority, state |-> st,
           claim_amount |-> claim_amount(st, authority), refused |-> 0, last |-> last ]

\* claim up to the invocation of the transfer: the checks, claim_amount and
\* contributor.allocation = 0
claim_enter(st, authority, last) ==
    IF claim_checks(st, authority) # Ok THEN NoFrame(last)
    ELSE [ pc |-> "transfer", authority |-> authority, state |-> claim_record(st, authority),
           claim_amount |-> claim_amount(st, authority), refused |-> 0, last |-> last ]

\* An invocation of claim that arrives while a claim is inside its transfer:
\* the instruction in progress holds the account, and the runtime refuses the
\* invocation before the handler runs.
claim_reentered(frame, authority) ==
    IF frame.pc = "transfer" THEN "ReentrancyNotAllowed" ELSE Ok

----------------------------------------------------------------------------
\* The Distribution instructions as actions.

\* Amounts batch_set_contributions is called with.
Contributions == (0..MaxContribution) \cup {U64Max}
\* Mints set_token is called with.
Mints == {DefaultKey, "mint"}

DistLoaded(r) ==
    IF distribution_state.is_initialized THEN r
    ELSE Fail("AccountNotInitialized", distribution_state)

\* As Args, for the owner check of the Distribution handlers.
DistArgs(authority, S) ==
    IF authority = distribution_state.owner THEN S ELSE { CHOOSE x \in S : TRUE }

Distribution(r) ==
    /\ distribution_state' = r.p
    /\ UNCHANGED <<token_account, calc_tokens, latest_amount, claim_ok, received, claim_frame, presale_vars>>

Call_initialize_distribution ==
    \E max_batch_size \in IF distribution_state.is_initialized THEN {1} ELSE 0..MaxBatch :
        Distribution(initialize_distribution(distribution_state, OwnerKey, max_batch_size))

Call_set_token ==
    \E authority \in Callers :
        \E token_mint \in DistArgs(authority, Mints) :
            Distribution(DistLoaded(set_token(distribution_state, authority, token_mint)))

Call_batch_set_contributions ==
    \E authority \in Callers :
        \E users \in DistArgs(authority, SeqsUpTo(Users, MaxBatch)),
           amounts \in DistArgs(authority, SeqsUpTo(Contributions, MaxBatch)),
           overflow_checks \in BOOLEAN :
            LET r == DistLoaded(batch_set_contributions(distribution_state, authority,
                                                        users, amounts, overflow_checks))
            IN  /\ distribution_state' = r.p
                /\ latest_amount' =
                        IF r.err = Ok
                        THEN [u \in Users |->
                                IF \E i \in 1..Len(users) : users[i] = u
                                THEN amounts[CHOOSE i \in 1..Len(users) : users[i] = u]
                                ELSE latest_amount[u]]
                        ELSE latest_amount
                /\ UNCHANGED <<token_account, calc_tokens, claim_ok, received, claim_frame, presale_vars>>

\* The token account is funded from outside the program.
Fund_token_account ==
    /\ token_account < MaxTokens
    /\ token_account' = token_account + 1
    /\ UNCHANGED <<distribution_state, calc_tokens, latest_amount, claim_ok, received, claim_frame, presale_vars>>

Call_calculate_allocations ==
    \E authority \in Callers :
        LET r == DistLoaded(calculate_allocations(distribution_state, authority, token_account))
        IN  /\ distribution_state' = r.p
            /\ calc_tokens' = IF r.err = Ok THEN token_account ELSE calc_tokens
            /\ UNCHANGED <<token_account, latest_amount, claim_ok, received, claim_frame, presale_vars>>

Call_claim ==
    \E authority \in Identities :
        LET r == DistLoaded(claim(distribution_state, authority, token_account))
            moved == IF r.err = Ok THEN claim_amount(distribution_state, authority) ELSE 0
        IN  /\ distribution_state' = r.p
            /\ token_account' = token_account - moved
            /\ claim_ok' = [claim_ok EXCEPT ![authority] = @ + (IF r.err = Ok THEN 1 ELSE 0)]
            /\ received' = [received EXCEPT ![authority] = @ + moved]
            /\ UNCHANGED <<calc_tokens, latest_amount, claim_frame, presale_vars>>

Call_open_claims ==
    \E authority \in Callers :
        Distribution(DistLoaded(open_claims(distribution_state, authority)))

Init ==
    /\ presale = DefaultPresale
    /\ presale_usdt = 0
    /\ paid_in = [u \in Users |-> 0]
    /\ paid_out = [u \in Users |-> 0]
    /\ refund_ok = [u \in Users |-> 0]
    /\ withdrawn = 0
    /\ distribution_state = DefaultDistributionState
    /\ token_account = 0
    /\ calc_tokens = 0
    /\ latest_amount = [u \in Users |-> 0]
    /\ claim_ok = [u \in Identities |-> 0]
    /\ received = [u \in Identities |-> 0]
    /\ claim_frame = NoFrame("none")

Next ==
    \/ Call_initialize
    \/ Call_create_tier
    \/ Call_assign_tier
    \/ Call_bulk_assign_tiers
    \/ Call_remove_user_from_whitelist
    \/ Call_update_user_tier
    \/ Call_contribute
    \/ Call_close_presale
    \/ Call_withdraw_funds
    \/ Call_refund
    \/ Call_set_min_contribution
    \/ Call_set_hard_cap
    \/ Call_pause_presale
    \/ Call_unpause_presale

\* The Presale ledger.
Spec == Init /\ [][Next]_vars

NextDistribution ==
    \/ Call_initialize_distribution
    \/ Call_set_token
    \/ Call_batch_set_contributions
    \/ Fund_token_account
    \/ Call_calculate_allocations
    \/ Call_claim

\* The Distribution ledger as the program has it.
SpecDistribution == Init /\ [][NextDistribution]_vars

NextClaims ==
    \/ NextDistribution
    \/ Call_open_claims

\* The Distribution ledger together with the step that opens claims.
SpecClaims == Init /\ [][NextClaims]_vars

\* claim, lines 148-163: the account is loaded, the checks run, claim_amount
\* is read and the allocation of the handler's account is zeroed.  A failed
\* check ends the instruction with nothing changed.
Claim_enter ==
    /\ claim_frame.pc = "idle"
    /\ distribution_state.is_initialized
    /\ \E authority \in Identities :
            claim_frame' = claim_enter(distribution_state, authority, claim_frame.last)
    /\ UNCHANGED <<distribution_state, token_account, calc_tokens, latest_amount, claim_ok, received, presale_vars>>

\* claim, lines 165-174: token::transfer(transfer_cpi_ctx, claim_amount)?.
\* The token program moves claim_amount when the balance covers it, and it can
\* refuse the transfer; a refused transfer makes the handler return Err, and
\* nothing of the instruction is kept.
Claim_transfer ==
    /\ claim_frame.pc = "transfer"
    /\ \E refuses \in BOOLEAN :
            IF ~refuses /\ transfer(token_account, claim_frame.claim_amount) = Ok
            THEN /\ token_account' = token_account - claim_frame.claim_amount
                 /\ received' = [received EXCEPT ![claim_frame.authority] = @ + claim_frame.claim_amount]
                 /\ claim_frame' = [claim_frame EXCEPT !.pc = "exit"]
                 /\ UNCHANGED <<distribution_state, calc_tokens, latest_amount, claim_ok, presale_vars>>
            ELSE /\ claim_frame' = NoFrame("failed")
                 /\ UNCHANGED <<distribution_state, token_account, calc_tokens, latest_amount, claim_ok, received, presale_vars>>

\* An invocation of claim by the participant whose claim is inside its transfer.
Claim_reenter ==
    /\ claim_frame.pc = "transfer"
    /\ claim_frame.refused = 0
    /\ claim_reentered(claim_frame, claim_frame.authority) # Ok
    /\ claim_frame' = [claim_frame EXCEPT !.refused = 1]
    /\ UNCHANGED <<distribution_state, token_account, calc_tokens, latest_amount, claim_ok, received, presale_vars>>

\* claim, lines 175-176: the handler returns Ok and the account is written back.
Claim_exit ==
    /\ claim_frame.pc = "exit"
    /\ distribution_state' = claim_frame.state
    /\ claim_ok' = [claim_ok EXCEPT ![claim_frame.authority] = @ + 1]
    /\ claim_frame' = NoFrame("paid")
    /\ UNCHANGED <<token_account, calc_tokens, latest_amount, received, presale_vars>>

\* The instructions of a ledger run one at a time: while a claim is in
\* progress no other instruction touches the account.
NextClaimSteps ==
    \/ /\ claim_frame.pc = "idle"
       /\ \/ Call_initialize_distribution
          \/ Call_set_token
          \/ Call_batch_set_contributions
          \/ Fund_token_account
          \/ Call_calculate_allocations
          \/ Call_open_claims
    \/ Claim_enter
    \/ Claim_transfer
    \/ Claim_reenter
    \/ Claim_exit

\* The Distribution ledger with claim taken statement by statement.
SpecClaimSteps == Init /\ [][NextClaimSteps]_vars

----------------------------------------------------------------------------
\* The tier registry and the whitelist at their capacity (specification
\* SpecCapacity): the owner fills the registry and the whitelist of one presale.
\* Participants are numbered; the whitelist holds the participants 1..Listed.

\* The i-th tier name: i letters, so the names differ.
CapName(i) == [j \in 1..i |-> "t"]
CapNames(n) == [i \in 1..n |-> CapName(i)]
\* A max_contribution of 1 for each of n tiers.
CapMax(n) == [i \in 1..n |-> 1]
\* Number of whitelist entries.
Listed == Cardinality(DOMAIN presale.whitelist)
\* The k participants after the first n, and as many times the first tier's name.
Block(n, k) == [i \in 1..k |-> n + i]
BlockTiers(k) == [i \in 1..k |-> CapName(1)]

Capacity_initialize ==
    \E n \in {MAX_TIERS - 1, MAX_TIERS, MAX_TIERS + 1} :
        Ledger(initialize(presale, OwnerKey, CapNames(n), CapMax(n), 1, U64Max, TRUE))

Capacity_create_tier ==
    \E i \in {1, MAX_TIERS, MAX_TIERS + 1} :
        Ledger(Loaded(create_tier(presale, presale.owner, CapName(i), 1)))

Capacity_assign_tier ==
    \E user \in {1, Listed + 1} :
        Ledger(Loaded(assign_tier(presale, presale.owner, user, CapName(1))))

\* Batches: the next MAX_BULK_ASSIGN participants, one more than that, the
\* next two, and the next one named twice.
Capacity_bulk_assign_tiers ==
    \E users \in { Block(Listed, MAX_BULK_ASSIGN), Block(Listed, MAX_BULK_ASSIGN + 1),
                    Block(Listed, 2), <<Listed + 1, Listed + 1>> } :
        Ledger(Loaded(bulk_assign_tiers(presale, presale.owner, users, BlockTiers(Len(users)))))

Capacity_remove_user_from_whitelist ==
    \E user \in {Listed, Listed + 1} :
        Ledger(Loaded(remove_user_from_whitelist(presale, presale.owner, user)))

NextCapacity ==
    \/ Capacity_initialize
    \/ Capacity_create_tier
    \/ Capacity_assign_tier
    \/ Capacity_bulk_assign_tiers
    \/ Capacity_remove_user_from_whitelist

SpecCapacity == Init /\ [][NextCapacity]_vars

----------------------------------------------------------------------------
\* The contributors of a presale whose whitelist entry is reused
\* (specification SpecContributors): the owner whitelists the next
\* participant when the whitelist is empty, the participant contributes 1, and
\* the owner removes it from the whitelist again.

\* The participant after the ones that have contributed so far.
NextParticipant == Len(presale.contributors) + 1

\* A presale with one tier and a hard cap that leaves room for MAX_USERS + 1
\* contributions of 1.
Contributors_initialize ==
    Ledger(initialize(presale, OwnerKey, CapNames(1), CapMax(1), 1, MAX_USERS + 1, TRUE))

Contributors_assign_tier ==
    /\ Listed = 0
    /\ NextParticipant <= MAX_USERS + 1
    /\ Ledger(Loaded(assign_tier(presale, presale.owner, NextParticipant, CapName(1))))

Contributors_contribute ==
    \E user \in DOMAIN presale.whitelist :
        LET r == Loaded(contribute(presale, user, 1, [owner |-> user, amount |-> U64Max]))
            moved == IF r.err = Ok THEN 1 ELSE 0
        IN  /\ presale' = r.p
            /\ presale_usdt' = presale_usdt + moved
            /\ UNCHANGED <<paid_in, paid_out, refund_ok, withdrawn, distribution_vars>>

Contributors_remove_user_from_whitelist ==
    \E user \in DOMAIN presale.whitelist :
        /\ GetOr(presale.contributions, user, 0) > 0
        /\ Ledger(Loaded(remove_user_from_whitelist(presale, presale.owner, user)))

NextContributors ==
    \/ Contributors_initialize
    \/ Contributors_assign_tier
    \/ Contributors_contribute
    \/ Contributors_remove_user_from_whitelist

SpecContributors == Init /\ [][NextContributors]_vars

----------------------------------------------------------------------------
\* The two ledgers are separate accounts of separate programs and no
\* instruction touches both: a behaviour of the pair is an interleaving of a
\* behaviour of each.  SpecLedgers follows each ledger while the other one is
\* still to be created and funded.

NextLedgers ==
    \/ ~distribution_state.is_initialized /\ token_account = 0 /\ Next
    \/ ~presale.is_initialized /\ NextDistribution

SpecLedgers == Init /\ [][NextLedgers]_vars

----------------------------------------------------------------------------
\* Properties of the Presale ledger (specification Spec).

\* C1: total_contributions equals the sum of contributions[u] over all
\* participants in every reachable Presale state, also after a refund.
C1_SumInvariant ==
    presale.total_contributions = SumMap(presale.contributions)

\* C2: every whitelisted participant's contribution is at most the
\* max_contribution of the tier the whitelist assigns to it.
C2_TierCapInvariant ==
    \A u \in DOMAIN presale.whitelist :
        presale.whitelist[u] \in DOMAIN presale.tiers
            => GetOr(presale.contributions, u, 0) <= presale.tiers[presale.whitelist[u]]

\* A contribute call that gets as far as the hard cap check.
ReachesHardCapCheck(user) ==
    /\ presale.is_initialized
    /\ ~presale.paused
    /\ presale.is_active
    /\ ~presale.is_closed
    /\ user \in DOMAIN presale.whitelist
    /\ presale.whitelist[user] \in DOMAIN presale.tiers

\* A contribute call that passes every check other than the hard cap one and
\* whose transfer is covered.
WithinOtherLimits(user, amount, user_usdt) ==
    /\ GetOr(presale.contributions, user, 0) + amount >= presale.min_contribution
    /\ GetOr(presale.contributions, user, 0) + amount
            <= presale.tiers[presale.whitelist[user]]
    /\ user_usdt.owner = user
    /\ user_usdt.amount >= amount

\* C3 as stated: total_contributions <= hard_cap in every reachable state; a
\* contribute that would take the total above hard_cap fails with
\* ExceedsHardCap and one that takes it exactly to hard_cap succeeds.
C3_HardCapAsStated ==
    /\ presale.total_contributions <= presale.hard_cap
    /\ \A user \in Users, amount \in Amounts, user_usdt \in UserUsdt :
        LET r == contribute(presale, user, amount, user_usdt)
            total == presale.total_contributions + amount
        IN  ReachesHardCapCheck(user) =>
                /\ total > presale.hard_cap => r.err = "ExceedsHardCap"
                /\ (total = presale.hard_cap /\ WithinOtherLimits(user, amount, user_usdt))
                        => r.err = Ok /\ r.p.total_contributions = presale.hard_cap

\* C3 amended: total_contributions <= hard_cap in every reachable state; a
\* contribute that would take the total above hard_cap fails, with Overflow
\* when the new total does not fit in 64 bits and with ExceedsHardCap
\* otherwise; one that stays within hard_cap never fails with ExceedsHardCap,
\* and one that takes the total exactly to hard_cap succeeds.
C3_HardCap ==
    /\ presale.total_contributions <= presale.hard_cap
    /\ \A user \in Users, amount \in Amounts, user_usdt \in UserUsdt :
        LET r == contribute(presale, user, amount, user_usdt)
            total == presale.total_contributions + amount
        IN  ReachesHardCapCheck(user) =>
                /\ total > presale.hard_cap =>
                        r.err = IF total > U64Max THEN "Overflow" ELSE "ExceedsHardCap"
                /\ total <= presale.hard_cap => r.err # "ExceedsHardCap"
                /\ (total = presale.hard_cap /\ WithinOtherLimits(user, amount, user_usdt))
                        => r.err = Ok /\ r.p.total_contributions = presale.hard_cap

\* C3 witness: contributions have taken the total exactly to hard_cap, and a
\* further contribution of 1 by a whitelisted user is refused with ExceedsHardCap.
C3_Witness ==
    /\ presale.is_initialized
    /\ presale.total_contributions = presale.hard_cap
    /\ presale_usdt = presale.hard_cap
    /\ \E user \in Users :
        /\ ReachesHardCapCheck(user)
        /\ contribute(presale, user, 1, [owner |-> user, amount |-> U64Max]).err
                = "ExceedsHardCap"

\* C4: after a participant's refund has succeeded, a second refund call by the
\* same participant (presale still unpaused) fails with AlreadyRefunded.
C4_SecondRefundAlreadyRefunded ==
    \A u \in Users :
        (refund_ok[u] >= 1 /\ ~presale.paused)
            => refund(presale, u, presale_usdt).err = "AlreadyRefunded"

\* C5: refund succeeds at most once per participant, the refunded flag is set
\* exactly when that one refund has succeeded (so it never goes back to false),
\* and refund never pays a participant more than contribute took from it.
C5_NoDoubleRefund ==
    \A u \in Users :
        /\ refund_ok[u] <= 1
        /\ GetOr(presale.refunded, u, FALSE) = (refund_ok[u] = 1)
        /\ paid_out[u] <= paid_in[u]
        /\ (refund_ok[u] = 1 => paid_out[u] = paid_in[u])

\* C5 witness: a participant contributed, was refunded in full, and a second
\* participant's funds are still in custody.
C5_Witness ==
    /\ refund_ok["u1"] = 1
    /\ paid_out["u1"] > 0
    /\ presale_usdt > 0

----------------------------------------------------------------------------
\* Properties of the Distribution ledger.

\* The true (unbounded) sum of contributor.contribution over the records.
RECURSIVE SumContributions(_)
SumContributions(contributors) ==
    IF contributors = <<>> THEN 0
    ELSE Head(contributors).contribution + SumContributions(Tail(contributors))

RECURSIVE SumAllocations(_)
SumAllocations(contributors) ==
    IF contributors = <<>> THEN 0
    ELSE Head(contributors).allocation + SumAllocations(Tail(contributors))

\* claim is open to its callers.
ClaimsOpen ==
    /\ distribution_state.is_initialized
    /\ ~distribution_state.paused
    /\ distribution_state.claim_enabled
    /\ distribution_state.claim_period_open

\* C6 (specification SpecClaims): while claims are open, a caller without a
\* Contributor record gets NotContributor; a contributor with a non-zero
\* stored allocation claims successfully and receives exactly that allocation;
\* a contributor claims successfully at most once, and after its claim every
\* further claim fails with NothingToClaim.
C6_OneShotClaim ==
    \A a \in Identities :
        LET contributors == distribution_state.contributors
            k == FindContributor(contributors, a)
            r == claim(distribution_state, a, token_account)
        IN  /\ claim_ok[a] <= 1
            /\ ClaimsOpen =>
                /\ k = 0 => r.err = "NotContributor"
                /\ (k # 0 /\ contributors[k].allocation > 0) =>
                        /\ claim_ok[a] = 0
                        /\ r.err = Ok
                        /\ claim_amount(distribution_state, a) = contributors[k].allocation
                        /\ r.p.contributors[k].allocation = 0
                /\ claim_ok[a] = 1 =>
                        /\ r.err = "NothingToClaim"
                        /\ received[a] > 0
                        /\ received[a] = (contributors[k].contribution * calc_tokens)
                                            \div distribution_state.total_raised

\* C6 witness: one contributor has claimed and been paid, and another one
\* still holds a non-zero allocation.
C6_Witness ==
    /\ ClaimsOpen
    /\ claim_ok["u1"] = 1
    /\ received["u1"] > 0
    /\ \E i \in 1..Len(distribution_state.contributors) :
            distribution_state.contributors[i].allocation > 0

\* C7 (specification SpecDistribution): once calculate_allocations has
\* succeeded on contributions that sum to total_raised, with token balance
\* calc_tokens, every contributor with a positive contribution holds
\* floor(contribution * calc_tokens / sum of contributions), and the
\* allocations sum to at most calc_tokens.
C7_AllocationCorrect ==
    LET contributors == distribution_state.contributors
        R == SumContributions(contributors)
    IN  (distribution_state.allocation_calculated /\ R = distribution_state.total_raised)
            => /\ \A i \in 1..Len(contributors) :
                    contributors[i].contribution > 0 =>
                        contributors[i].allocation
                            = (contributors[i].contribution * calc_tokens) \div R
               /\ SumAllocations(contributors) <= calc_tokens

\* C7 witness: allocations calculated for contributions {1, 2} with 2 tokens:
\* the floors are 0 and 1, which leaves one token of dust.
C7_Witness ==
    LET contributors == distribution_state.contributors
    IN  /\ distribution_state.allocation_calculated
        /\ Len(contributors) = 2
        /\ contributors[1].contribution = 1
        /\ contributors[2].contribution = 2
        /\ distribution_state.total_raised = 3
        /\ calc_tokens = 2
        /\ contributors[1].allocation = 0
        /\ contributors[2].allocation = 1

\* calculate_allocations gets as far as its loop when the owner calls it.
ReachesAllocationLoop ==
    /\ distribution_state.is_initialized
    /\ ~distribution_state.paused
    /\ distribution_state.token_mint # DefaultKey
    /\ distribution_state.total_raised > 0
    /\ ~distribution_state.allocation_calculated
    /\ token_account > 0

\* C8: the product contribution * total_tokens is formed in a wider
\* intermediate, so whenever every quotient floor(contribution * total_tokens
\* / total_raised) and their sum fit in 64 bits, calculate_allocations does
\* not fail with Overflow: it succeeds with the exact floors.
C8_WidenedMultiply ==
    LET st == distribution_state
        R == st.total_raised
        r == calculate_allocations(st, st.owner, token_account)
    IN  (/\ ReachesAllocationLoop
         /\ SumContributions(st.contributors) = R
         /\ \A i \in 1..Len(st.contributors) :
                (st.contributors[i].contribution * token_account) \div R <= U64Max)
            => /\ r.err = Ok
               /\ \A i \in 1..Len(st.contributors) :
                    r.p.contributors[i].allocation
                        = (st.contributors[i].contribution * token_account) \div R

\* C9: total_raised equals the true sum of contributor.contribution in every
\* reachable state, and a batch_set_contributions whose arithmetic leaves the
\* 64-bit range fails with the Overflow error.
C9_DistributionSum ==
    /\ distribution_state.total_raised = SumContributions(distribution_state.contributors)
    /\ \A users \in SeqsUpTo(Users, 1), amounts \in SeqsUpTo(Contributions, 1),
          overflow_checks \in BOOLEAN :
        LET st == distribution_state
            r == batch_set_contributions(st, st.owner, users, amounts, overflow_checks)
        IN  (/\ st.is_initialized
             /\ ~st.allocation_calculated
             /\ Len(users) = 1 /\ Len(amounts) = 1
             /\ FindContributor(st.contributors, users[1]) = 0
             /\ st.total_raised + amounts[1] > U64Max)
                => r.err = "Overflow"

\* C10: after any sequence of successful batch_set_contributions calls each
\* user has at most one record, its contribution is the latest amount set for
\* the user, total_raised is the sum of the latest amounts, and repeating a
\* successful call changes nothing.
C10_IdempotentReset ==
    LET st == distribution_state
    IN  /\ \A u \in Users :
            /\ Cardinality({ i \in 1..Len(st.contributors) : st.contributors[i].user = u }) <= 1
            /\ latest_amount[u] =
                    IF FindContributor(st.contributors, u) = 0 THEN 0
                    ELSE st.contributors[FindContributor(st.contributors, u)].contribution
        /\ st.total_raised = latest_amount["u1"] + latest_amount["u2"]
        /\ \A users \in SeqsUpTo(Users, MaxBatch), amounts \in SeqsUpTo(Contributions, MaxBatch),
              overflow_checks \in BOOLEAN :
            LET r == batch_set_contributions(st, st.owner, users, amounts, overflow_checks)
            IN  (st.is_initialized /\ r.err = Ok)
                    => batch_set_contributions(r.p, st.owner, users, amounts,
                                               overflow_checks).p = r.p

----------------------------------------------------------------------------
\* Frame, gating and error properties of the Presale ledger (specification Spec).

\* The pair (user, tier) is one that bulk_assign_tiers refuses on account p.
PairInvalid(p, user, tier) ==
    \/ Len(tier) > MAX_TIER_NAME_LENGTH
    \/ normalized(tier) \notin DOMAIN p.tiers
    \/ user \in DOMAIN p.whitelist

\* C11: a bulk_assign_tiers call by the owner in which a pair at any position
\* is invalid (tier missing, user already whitelisted, name too long) fails and
\* leaves the account, the whitelist included, as it was; a failing call never
\* changes the account; a call whose pairs are all valid succeeds and applies
\* every pair (a user named twice ends on the tier of its last pair), leaving
\* the other whitelist entries alone.
C11_BulkAtomic ==
    presale.is_initialized =>
        \A users \in SeqsUpTo(Users, MaxBulk), tiers \in SeqsUpTo(RawNames, MaxBulk) :
            LET r == bulk_assign_tiers(presale, presale.owner, users, tiers)
                named == { users[k] : k \in 1..Len(users) }
            IN  /\ r.err # Ok => r.p = presale
                /\ Len(users) = Len(tiers) =>
                    /\ (\E k \in 1..Len(users) : PairInvalid(presale, users[k], tiers[k]))
                            => (r.err # Ok /\ r.p.whitelist = presale.whitelist)
                    /\ (\A k \in 1..Len(users) : ~PairInvalid(presale, users[k], tiers[k]))
                            => /\ r.err = Ok
                               /\ DOMAIN r.p.whitelist = DOMAIN presale.whitelist \cup named
                               /\ \A k \in 1..Len(users) :
                                    (\A j \in (k + 1)..Len(users) : users[j] # users[k])
                                        => r.p.whitelist[users[k]] = normalized(tiers[k])
                               /\ \A u \in DOMAIN presale.whitelist :
                                    r.p.whitelist[u] = presale.whitelist[u]

\* C11 witness: u1 is whitelisted and u2 is not; the batch (u2, u1) on an
\* existing tier is refused at its second pair, after a valid first pair, and
\* the batch (u2) alone is applied.
C11_Witness ==
    /\ presale.is_initialized
    /\ "u1" \in DOMAIN presale.whitelist
    /\ "u2" \notin DOMAIN presale.whitelist
    /\ <<"s">> \in DOMAIN presale.tiers
    /\ bulk_assign_tiers(presale, presale.owner, <<"u2", "u1">>,
                         << <<" ", "s">>, <<" ", "s">> >>).err = "UserAlreadyWhitelisted"
    /\ bulk_assign_tiers(presale, presale.owner, <<"u2">>, << <<" ", "s">> >>).err = Ok

\* C12: while paused is true, every mutating operation other than
\* unpause_presale, called by the owner (contribute and refund: by a user),
\* fails and leaves the account unchanged, whatever its arguments.
C12_PauseGates ==
    (presale.is_initialized /\ presale.paused) =>
        LET o == presale.owner
            Gated(r) == r.err # Ok /\ r.p = presale
        IN  /\ \A tier_name \in RawNames, max_contribution \in Caps :
                Gated(create_tier(presale, o, tier_name, max_contribution))
            /\ \A user \in Users, tier_name \in RawNames :
                /\ Gated(assign_tier(presale, o, user, tier_name))
                /\ Gated(update_user_tier(presale, o, user, tier_name))
            /\ \A users \in SeqsUpTo(Users, MaxBulk), tiers \in SeqsUpTo(BulkNames, MaxBulk) :
                Gated(bulk_assign_tiers(presale, o, users, tiers))
            /\ \A user \in Users :
                /\ Gated(remove_user_from_whitelist(presale, o, user))
                /\ Gated(refund(presale, user, presale_usdt))
            /\ \A user \in Users, amount \in Amounts, user_usdt \in UserUsdt :
                Gated(contribute(presale, user, amount, user_usdt))
            /\ \A refunds_allowed \in BOOLEAN :
                Gated(close_presale(presale, o, refunds_allowed))
            /\ Gated(withdraw_funds(presale, o, presale_usdt))
            /\ \A new_min \in Mins : Gated(set_min_contribution(presale, o, new_min))
            /\ \A new_hard_cap \in HardCaps : Gated(set_hard_cap(presale, o, new_hard_cap))

----------------------------------------------------------------------------
\* Freeze of the Distribution ledger (specification SpecClaims).

\* Errors of the owner's calls once the allocations are calculated, set_token
\* answering with the error err_set_token.
FrozenErrors(err_set_token) ==
    LET st == distribution_state
    IN  (st.is_initialized /\ st.allocation_calculated) =>
            /\ calculate_allocations(st, st.owner, token_account).err
                    = "AllocationAlreadyCalculated"
            /\ \A users \in SeqsUpTo(Users, MaxBatch),
                  amounts \in SeqsUpTo(Contributions, MaxBatch), overflow_checks \in BOOLEAN :
                    batch_set_contributions(st, st.owner, users, amounts, overflow_checks).err
                        = "AllocationAlreadyCalculated"
            /\ \A token_mint \in Mints :
                    set_token(st, st.owner, token_mint).err = err_set_token

\* A step taken once the allocations are calculated: the flag stays, the
\* records and total_raised stay, and an allocation changes only by a
\* successful claim of its owner setting it to zero.
FrozenStep ==
    LET st == distribution_state
        nx == distribution_state'
    IN  st.allocation_calculated =>
            /\ nx.allocation_calculated
            /\ nx.total_raised = st.total_raised
            /\ Len(nx.contributors) = Len(st.contributors)
            /\ \A i \in 1..Len(st.contributors) :
                /\ nx.contributors[i].user = st.contributors[i].user
                /\ nx.contributors[i].contribution = st.contributors[i].contribution
                /\ \/ nx.contributors[i].allocation = st.contributors[i].allocation
                   \/ /\ nx.contributors[i].allocation = 0
                      /\ claim_ok'[st.contributors[i].user]
                            = claim_ok[st.contributors[i].user] + 1

\* C13 as stated, its statement about errors: once allocation_calculated is
\* true, calculate_allocations, batch_set_contributions and set_token called
\* by the owner all fail with AllocationAlreadyCalculated.
C13_FrozenAsStated == FrozenErrors("AllocationAlreadyCalculated")

\* C13 amended: allocation_calculated never returns to false; once it is
\* true, calculate_allocations and batch_set_contributions fail with
\* AllocationAlreadyCalculated and set_token fails with ClaimPeriodActive while
\* the claim period is open and with AllocationAlreadyCalculated otherwise;
\* contributions and total_raised never change again and an allocation
\* changes only by claim setting it to zero.
C13_Frozen ==
    /\ [](FrozenErrors(IF distribution_state.claim_period_open
                        THEN "ClaimPeriodActive" ELSE "AllocationAlreadyCalculated"))
    /\ [][FrozenStep]_vars

\* C13 witness: the allocations are calculated, the claim period is open, one
\* contributor has claimed its allocation and another still holds one, and
\* set_token is refused with ClaimPeriodActive.
C13_Witness ==
    /\ distribution_state.allocation_calculated
    /\ distribution_state.claim_period_open
    /\ claim_ok["u1"] = 1
    /\ \E i \in 1..Len(distribution_state.contributors) :
            distribution_state.contributors[i].allocation > 0
    /\ set_token(distribution_state, distribution_state.owner, "mint").err
            = "ClaimPeriodActive"

----------------------------------------------------------------------------
\* Capacity of the tier registry and of the whitelist (specification SpecCapacity).

\* C14: the tier registry never holds more than MAX_TIERS tiers and the
\* whitelist never more than MAX_USERS entries; an initialize with more than
\* MAX_TIERS names, and a create_tier of a new valid tier on a full registry,
\* fail with ExceedsMaxTiers; an assign_tier of a new participant on a full
\* whitelist, and a bulk_assign_tiers whose batch does not fit any more, fail
\* with ExceedsMaxUsers; below the capacity none of them fails with that error.
C14_Capacity ==
    LET tiers == Cardinality(DOMAIN presale.tiers)
        o == presale.owner
    IN  /\ tiers <= MAX_TIERS
        /\ Listed <= MAX_USERS
        /\ ~presale.is_initialized =>
                \A n \in {MAX_TIERS, MAX_TIERS + 1} :
                    (initialize(presale, OwnerKey, CapNames(n), CapMax(n), 1, U64Max, TRUE).err
                        = "ExceedsMaxTiers") <=> (n > MAX_TIERS)
        /\ presale.is_initialized =>
            /\ \A i \in {MAX_TIERS, MAX_TIERS + 1} :
                    CapName(i) \notin DOMAIN presale.tiers =>
                        ((create_tier(presale, o, CapName(i), 1).err = "ExceedsMaxTiers")
                            <=> (tiers + 1 > MAX_TIERS))
            /\ (assign_tier(presale, o, Listed + 1, CapName(1)).err = "ExceedsMaxUsers")
                    <=> (Listed + 1 > MAX_USERS)
            /\ \A k \in {1, 2, MAX_BULK_ASSIGN} :
                    (bulk_assign_tiers(presale, o, Block(Listed, k), BlockTiers(k)).err
                        = "ExceedsMaxUsers") <=> (Listed + k > MAX_USERS)

\* C14 witness: the registry holds MAX_TIERS tiers and the whitelist MAX_USERS
\* entries, and one more tier and one more participant are refused.
C14_Witness ==
    /\ presale.is_initialized
    /\ Cardinality(DOMAIN presale.tiers) = MAX_TIERS
    /\ Listed = MAX_USERS
    /\ create_tier(presale, presale.owner, CapName(MAX_TIERS + 1), 1).err = "ExceedsMaxTiers"
    /\ assign_tier(presale, presale.owner, MAX_USERS + 1, CapName(1)).err = "ExceedsMaxUsers"
    /\ bulk_assign_tiers(presale, presale.owner, <<MAX_USERS + 1, MAX_USERS + 1>>,
                         BlockTiers(2)).err = "ExceedsMaxUsers"

\* C15 (specification SpecContributors): the contributors list and the
\* contributions map hold at most MAX_USERS participants.
C15_ContributorCapacity ==
    /\ Len(presale.contributors) <= MAX_USERS
    /\ Cardinality(DOMAIN presale.contributions) <= MAX_USERS

----------------------------------------------------------------------------
\* Contribute and its transfer (specification Spec).

\* A contribute whose checks pass and whose transfer fails returns the
\* transfer's error and leaves the account as it was; one whose transfer
\* succeeds adds amount to the participant's contribution and to the total.
ContributeOutcome ==
    presale.is_initialized =>
        \A user \in Users, amount \in Amounts, user_usdt \in UserUsdt :
            LET r == contribute(presale, user, amount, user_usdt)
                previous == GetOr(presale.contributions, user, 0)
            IN  contribute_checks(presale, user, amount, user_usdt) = Ok =>
                    IF user_usdt.amount < amount
                    THEN r.err = "InsufficientFunds" /\ r.p = presale
                    ELSE /\ r.err = Ok
                         /\ r.p.contributions[user] = previous + amount
                         /\ r.p.total_contributions = presale.total_contributions + amount
                         /\ r.p.contributors =
                                IF previous = 0 THEN Append(presale.contributors, user)
                                ELSE presale.contributors

\* A step changes the contribution bookkeeping exactly when it moves funds
\* into custody, and then both grow by the same amount; a refund is the one
\* step that lowers a contribution.
ContributeStep ==
    LET grown == presale'.total_contributions - presale.total_contributions
    IN  /\ grown >= 0
        /\ (grown > 0 \/ presale_usdt' > presale_usdt) =>
                /\ presale_usdt' = presale_usdt + grown
                /\ \E user \in Users :
                    /\ presale'.contributions =
                            Insert(presale.contributions, user,
                                   GetOr(presale.contributions, user, 0) + grown)
                    /\ paid_in' = [paid_in EXCEPT ![user] = @ + grown]
        /\ (grown = 0 /\ presale_usdt' >= presale_usdt) =>
                /\ presale'.contributions = presale.contributions
                /\ presale'.contributors = presale.contributors

\* C16: if the transfer invoked by contribute fails, the call fails and
\* contributions, contributors, total_contributions and the custody balance
\* are as before the call; if it succeeds, the bookkeeping and the custody
\* balance both increase by amount.
C16_ContributeAtomic == []ContributeOutcome /\ [][ContributeStep]_vars

\* C16 witness: a participant has contributed, and a further contribution of 1
\* that passes every check is refused because its transfer is not covered.
C16_Witness ==
    /\ paid_in["u1"] > 0
    /\ presale_usdt > 0
    /\ contribute_checks(presale, "u1", 1, [owner |-> "u1", amount |-> 0]) = Ok
    /\ contribute(presale, "u1", 1, [owner |-> "u1", amount |-> 0]).err = "InsufficientFunds"

----------------------------------------------------------------------------
\* Failed batches of the Distribution ledger (specification SpecDistribution).

\* Element k of the batch is one the loop of batch_set_contributions refuses:
\* its user is named by an earlier element, or its amount is zero.
ElementRefused(users, amounts, k) ==
    \/ \E j \in 1..(k - 1) : users[j] = users[k]
    \/ amounts[k] = 0

\* C17: a batch_set_contributions call that fails, with whatever error, leaves
\* the account (contributors and total_raised included) as it was before the
\* call; a call that gets to its loop with an element the loop refuses fails,
\* and its error is DuplicateContributor or InvalidAmount according to the
\* first refused element unless the arithmetic of an earlier element aborted
\* the call.
C17_NoPartialBatch ==
    LET st == distribution_state
    IN  st.is_initialized =>
        \A users \in SeqsUpTo(Users, MaxBatch), amounts \in SeqsUpTo(Contributions, MaxBatch),
           overflow_checks \in BOOLEAN :
            LET r == batch_set_contributions(st, st.owner, users, amounts, overflow_checks)
                refused == { k \in 1..Len(users) : ElementRefused(users, amounts, k) }
                first == CHOOSE k \in refused : \A j \in refused : k <= j
            IN  /\ r.err # Ok => r.p = st
                /\ (/\ ~st.allocation_calculated
                     /\ Len(users) = Len(amounts)
                     /\ Len(users) <= st.max_batch_size
                     /\ refused # {})
                        => /\ r.err # Ok
                           /\ r.p.contributors = st.contributors
                           /\ r.p.total_raised = st.total_raised
                           /\ r.err \in { "Panic",
                                           IF \E j \in 1..(first - 1) : users[j] = users[first]
                                           THEN "DuplicateContributor" ELSE "InvalidAmount" }

\* C17 witness: u1 has a record and u2 has none, and batches whose first
\* element is valid are refused at their second element: (u2, u2) with
\* DuplicateContributor and (u1, u2) with amounts (2, 0) with InvalidAmount.
C17_Witness ==
    LET st == distribution_state
    IN  /\ st.is_initialized
        /\ FindContributor(st.contributors, "u1") # 0
        /\ FindContributor(st.contributors, "u2") = 0
        /\ batch_set_contributions(st, st.owner, <<"u2", "u2">>, <<1, 2>>, TRUE).err
                = "DuplicateContributor"
        /\ batch_set_contributions(st, st.owner, <<"u1", "u2">>, <<2, 0>>, TRUE).err
                = "InvalidAmount"

----------------------------------------------------------------------------
\* Owner gating of both ledgers (specification SpecLedgers).

\* Every owner-only operation, called by a signer that is not the owner with
\* whatever arguments, fails with presale_err (Presale) or distribution_err
\* (Distribution) and leaves the account as it was; contribute, refund and
\* claim never fail with an owner error.
OwnerGating(presale_err, distribution_err) ==
    /\ presale.is_initialized =>
        \A caller \in Identities \ {presale.owner} :
            LET Refused(r) == r.err = presale_err /\ r.p = presale
            IN  /\ \A tier_name \in RawNames, max_contribution \in Caps :
                    Refused(create_tier(presale, caller, tier_name, max_contribution))
                /\ \A user \in Users, tier_name \in RawNames :
                    /\ Refused(assign_tier(presale, caller, user, tier_name))
                    /\ Refused(update_user_tier(presale, caller, user, tier_name))
                /\ \A users \in SeqsUpTo(Users, MaxBulk), tiers \in SeqsUpTo(BulkNames, MaxBulk) :
                    Refused(bulk_assign_tiers(presale, caller, users, tiers))
                /\ \A user \in Users :
                    Refused(remove_user_from_whitelist(presale, caller, user))
                /\ \A refunds_allowed \in BOOLEAN :
                    Refused(close_presale(presale, caller, refunds_allowed))
                /\ Refused(withdraw_funds(presale, caller, presale_usdt))
                /\ \A new_min \in Mins : Refused(set_min_contribution(presale, caller, new_min))
                /\ \A new_hard_cap \in HardCaps :
                    Refused(set_hard_cap(presale, caller, new_hard_cap))
                /\ Refused(pause_presale(presale, caller))
                /\ Refused(unpause_presale(presale, caller))
    /\ presale.is_initialized =>
        \A user \in Users :
            /\ refund(presale, user, presale_usdt).err \notin {presale_err, distribution_err}
            /\ \A amount \in Amounts, user_usdt \in UserUsdt :
                contribute(presale, user, amount, user_usdt).err
                    \notin {presale_err, distribution_err}
    /\ distribution_state.is_initialized =>
        LET st == distribution_state
        IN  /\ \A authority \in Identities \ {st.owner} :
                LET Refused(r) == r.err = distribution_err /\ r.p = st
                IN  /\ \A token_mint \in Mints : Refused(set_token(st, authority, token_mint))
                    /\ \A users \in SeqsUpTo(Users, MaxBatch),
                          amounts \in SeqsUpTo(Contributions, MaxBatch),
                          overflow_checks \in BOOLEAN :
                            Refused(batch_set_contributions(st, authority, users, amounts,
                                                            overflow_checks))
                    /\ Refused(calculate_allocations(st, authority, token_account))
            /\ \A authority \in Identities :
                    claim(st, authority, token_account).err
                        \notin {presale_err, distribution_err}

----------------------------------------------------------------------------
\* close_presale and update_user_tier (specification Spec).

\* C19: close_presale by the owner on an unpaused, active, not-closed presale
\* sets is_closed, clears is_active and stores refunds_allowed; on an
\* already-closed, unpaused presale it fails with PresaleAlreadyClosed and
\* changes nothing.
C19_CloseRepeat ==
    (presale.is_initialized /\ ~presale.paused) =>
        \A refunds_allowed \in BOOLEAN :
            LET r == close_presale(presale, presale.owner, refunds_allowed)
            IN  /\ (presale.is_active /\ ~presale.is_closed) =>
                        /\ r.err = Ok
                        /\ r.p = [presale EXCEPT !.is_closed = TRUE,
                                                  !.is_active = FALSE,
                                                  !.refunds_allowed = refunds_allowed]
                /\ presale.is_closed =>
                        (r.err = "PresaleAlreadyClosed" /\ r.p = presale)

\* C20: update_user_tier by the owner, for a whitelisted user with
\* contribution c and an existing new tier different from the current one,
\* fails with ExceedsNewTierMaxContribution and changes nothing if c exceeds
\* the new tier's cap; otherwise it succeeds, puts the user on the new tier,
\* lowers the old tier's running total by c and raises the new tier's by c.
C20_TierTotalsMove ==
    presale.is_initialized =>
        \A user \in DOMAIN presale.whitelist, new_tier \in RawNames :
            LET r == update_user_tier(presale, presale.owner, user, new_tier)
                old == presale.whitelist[user]
                new == normalized(new_tier)
                c == GetOr(presale.contributions, user, 0)
                before == presale.tier_total_contributions
                after == r.p.tier_total_contributions
            IN  (/\ Len(new_tier) <= MAX_TIER_NAME_LENGTH
                 /\ new \in DOMAIN presale.tiers
                 /\ new # old)
                    => IF c > presale.tiers[new]
                       THEN r.err = "ExceedsNewTierMaxContribution" /\ r.p = presale
                       ELSE /\ r.err = Ok
                            /\ r.p.whitelist[user] = new
                            /\ GetOr(after, old, 0) = GetOr(before, old, 0) - c
                            /\ GetOr(after, new, 0) = GetOr(before, new, 0) + c

----------------------------------------------------------------------------
\* Refunds, acceptance of contributions and custody (specification Spec).

\* Sum of the contributions of the participants that have not been refunded.
Outstanding == SumMap([u \in { x \in DOMAIN presale.contributions : ~GetOr(presale.refunded, x, FALSE) } |-> presale.contributions[u]])

\* C21: while the presale is closed with refunds allowed and not paused,
\* custody covers the contributions not yet refunded, and every participant
\* with a positive contribution and no earlier refund who calls refund gets
\* Ok, is paid the recorded contribution, and is left with contribution 0.
C21_RefundHonoured ==
    (presale.is_initialized /\ presale.is_closed /\ presale.refunds_allowed /\ ~presale.paused) =>
        /\ presale_usdt >= Outstanding
        /\ \A user \in Users :
                (GetOr(presale.contributions, user, 0) > 0 /\ ~GetOr(presale.refunded, user, FALSE)) =>
                    LET r == refund(presale, user, presale_usdt)
                    IN  r.err = Ok /\ r.p.contributions[user] = 0

\* The conditions of the ledger under which a contribution is accepted.
Accepted(user, amount) ==
    /\ ~presale.paused /\ presale.is_active /\ ~presale.is_closed
    /\ user \in DOMAIN presale.whitelist
    /\ presale.whitelist[user] \in DOMAIN presale.tiers
    /\ presale.total_contributions + amount <= presale.hard_cap
    /\ GetOr(presale.contributions, user, 0) + amount >= presale.min_contribution
    /\ GetOr(presale.contributions, user, 0) + amount <= presale.tiers[presale.whitelist[user]]

\* The token account passed as user_usdt is the caller's and covers the amount.
Funded(user, amount, user_usdt) == user_usdt.owner = user /\ user_usdt.amount >= amount

\* What a contribute call does, given when it succeeds: the bookkeeping of a
\* successful call, no change on a failed one, AboveMaxContribution for a
\* cumulative amount above the tier cap.
Acceptance(user, amount, user_usdt, succeeds) ==
    LET r == contribute(presale, user, amount, user_usdt)
        previous == GetOr(presale.contributions, user, 0)
    IN  /\ (r.err = Ok) <=> succeeds
        /\ r.err = Ok =>
                /\ r.p.contributions[user] = previous + amount
                /\ r.p.total_contributions = presale.total_contributions + amount
                /\ r.p.contributors = IF paid_in[user] = 0 THEN Append(presale.contributors, user)
                                      ELSE presale.contributors
        /\ r.err # Ok => r.p = presale
        /\ (/\ ~presale.paused /\ presale.is_active /\ ~presale.is_closed
            /\ user \in DOMAIN presale.whitelist
            /\ presale.total_contributions + amount <= presale.hard_cap
            /\ previous + amount >= presale.min_contribution
            /\ previous + amount > presale.tiers[presale.whitelist[user]])
                => r.err = "AboveMaxContribution"

\* C22 as stated: contribute succeeds exactly when the conditions of the
\* ledger hold, whatever token account the caller passes.
C22_AcceptanceAsStated ==
    presale.is_initialized =>
        \A user \in Users, amount \in Amounts, user_usdt \in UserUsdt :
            Acceptance(user, amount, user_usdt, Accepted(user, amount))

\* C22: contribute(amount) by a user succeeds exactly when the presale is not
\* paused, active and not closed, the user is whitelisted on an existing tier,
\* total_contributions + amount <= hard_cap, the user's cumulative
\* contribution is >= min_contribution and <= the tier cap, and the token
\* account passed is the user's own and covers the amount; on success
\* contributions[user] and total_contributions grow by amount and the user is
\* appended to contributors on the first contribution only; a failed call
\* changes nothing, and a cumulative amount above the tier cap fails with
\* AboveMaxContribution.
C22_Acceptance ==
    presale.is_initialized =>
        \A user \in Users, amount \in Amounts, user_usdt \in UserUsdt :
            Acceptance(user, amount, user_usdt,
                       Accepted(user, amount) /\ Funded(user, amount, user_usdt))

\* u1 has contributed once and a second contribution of u1 is accepted.
C22_Witness ==
    /\ presale.is_initialized
    /\ paid_in["u1"] = 1 /\ presale.contributors = <<"u1">>
    /\ contribute(presale, "u1", 1, [owner |-> "u1", amount |-> U64Max]).err = Ok

----------------------------------------------------------------------------
\* The phases of the Distribution ledger.

\* C23: the Distribution ledger records contributions only after set_token has
\* configured a token, and calculates allocations only after a token is
\* configured and a contribution is recorded: while token_mint is the default
\* key no contribution is recorded and no batch_set_contributions succeeds, and
\* calculate_allocations succeeds only with a token and a recorded contribution.
C23_PhaseOrder ==
    distribution_state.is_initialized =>
        /\ distribution_state.token_mint = DefaultKey =>
                /\ distribution_state.contributors = <<>>
                /\ \A users \in SeqsUpTo(Users, MaxBatch), amounts \in SeqsUpTo(Contributions, MaxBatch), overflow_checks \in BOOLEAN :
                        batch_set_contributions(distribution_state, distribution_state.owner, users, amounts, overflow_checks).err # Ok
        /\ calculate_allocations(distribution_state, distribution_state.owner, token_account).err = Ok =>
                /\ distribution_state.token_mint # DefaultKey
                /\ distribution_state.contributors # <<>>
        /\ distribution_state.allocation_calculated =>
                /\ distribution_state.token_mint # DefaultKey
                /\ distribution_state.contributors # <<>>

\* The accounts the owner's instructions of the Distribution ledger can leave
\* from the account as it is.
OwnerMoves ==
    LET st == distribution_state
    IN  { initialize_distribution(st, st.owner, n).p : n \in 0..MaxBatch }
        \cup { set_token(st, st.owner, token_mint).p : token_mint \in Mints }
        \cup { batch_set_contributions(st, st.owner, users, amounts, overflow_checks).p :
                    users \in SeqsUpTo(Users, MaxBatch), amounts \in SeqsUpTo(Contributions, MaxBatch), overflow_checks \in BOOLEAN }
        \cup { calculate_allocations(st, st.owner, total_tokens).p : total_tokens \in 0..MaxTokens }

\* C24: once calculate_allocations has succeeded, owner operations of the
\* ledger lead to a state with claim_enabled and claim_period_open both set:
\* as long as claims are not open, some owner operation changes the account.
C24_ClaimsCanOpen ==
    (/\ distribution_state.is_initialized
     /\ distribution_state.allocation_calculated
     /\ ~distribution_state.paused
     /\ ~(distribution_state.claim_enabled /\ distribution_state.claim_period_open))
        => \E p \in OwnerMoves : p # distribution_state

----------------------------------------------------------------------------
\* The order of zeroing and transfer in claim (specification SpecClaimSteps).

\* Number of transfers claim has made to an identity.
TimesPaid(a) == claim_ok[a] + (IF claim_frame.pc = "exit" /\ claim_frame.authority = a THEN 1 ELSE 0)

\* What holds of a claim in progress and of the claims made so far, with
\* err_reentered the error of an invocation that arrives during the transfer.
ZeroThenTransfer(err_reentered) ==
    LET f == claim_frame
        k == FindContributor(distribution_state.contributors, f.authority)
    IN  /\ f.pc \in {"transfer", "exit"} =>
                /\ k # 0
                /\ f.claim_amount > 0
                /\ f.claim_amount = distribution_state.contributors[k].allocation
                /\ f.state.contributors[k].allocation = 0
        /\ f.pc = "transfer" => claim_reentered(f, f.authority) = err_reentered
        /\ \A a \in Identities :
                /\ TimesPaid(a) <= 1
                /\ (claim_ok[a] = 1 /\ f.pc = "idle" /\ ClaimsOpen) =>
                        claim_checks(distribution_state, a) = "NothingToClaim"

\* A step of a claim inside its transfer: a refused invocation changes
\* nothing, and a failed transfer ends the instruction with the account, the
\* balance and the allocation as they were before the call.
TransferStep ==
    claim_frame.pc = "transfer" =>
        /\ claim_frame'.pc = "transfer" =>
                UNCHANGED <<distribution_state, token_account, claim_ok, received>>
        /\ claim_frame'.pc = "idle" =>
                /\ UNCHANGED <<distribution_state, token_account, claim_ok, received>>
                /\ claim_frame'.last = "failed"
                /\ claim_amount(distribution_state', claim_frame.authority) = claim_frame.claim_amount
                /\ claim_checks(distribution_state', claim_frame.authority) = Ok
        /\ claim_frame'.pc = "exit" =>
                /\ token_account' = token_account - claim_frame.claim_amount
                /\ received'[claim_frame.authority] = received[claim_frame.authority] + claim_frame.claim_amount

----------------------------------------------------------------------------
\* What the claims pay out (specification SpecClaims).

\* C26: the total moved out by successful claims never exceeds the token
\* balance read by calculate_allocations, and what each contributor has been
\* paid never exceeds floor(contribution * T / total_raised).
C26_NoOverPayment ==
    LET st == distribution_state
    IN  /\ SumMap(received) <= calc_tokens
        /\ \A a \in Identities :
                LET k == FindContributor(st.contributors, a)
                IN  received[a] <= IF k = 0 \/ st.total_raised = 0 THEN 0
                                   ELSE (st.contributors[k].contribution * calc_tokens) \div st.total_raised

\* Both contributors have claimed, and rounding has left part of the balance
\* unallocated.
C26_Witness ==
    /\ received["u1"] > 0
    /\ received["u2"] > 0
    /\ received["u1"] + received["u2"] < calc_tokens

----------------------------------------------------------------------------
\* The lifecycle of the presale and its custody (specification Spec).

\* The lifecycle flags of an initialized presale: active exactly while not
\* closed, refunds allowed only when closed, no contribution once closed.
ClosedForGood ==
    presale.is_initialized =>
        /\ presale.is_active = ~presale.is_closed
        /\ presale.refunds_allowed => presale.is_closed
        /\ presale.is_closed =>
                \A user \in Users, amount \in Amounts, user_usdt \in UserUsdt :
                    contribute(presale, user, amount, user_usdt).err # Ok

\* A step from a closed presale leaves it closed, inactive and with the
\* refunds_allowed given at close.
StaysClosed ==
    presale.is_closed =>
        /\ presale'.is_closed
        /\ ~presale'.is_active
        /\ presale'.refunds_allowed = presale.refunds_allowed

\* C27: in every reachable Presale state after initialize, is_active equals
\* not is_closed; once close_presale has succeeded, is_closed stays true,
\* is_active stays false and refunds_allowed keeps the value given at close,
\* so no contribute succeeds after closing and refunds_allowed is never true
\* while the presale is not closed.
C27_ClosingIrreversible == []ClosedForGood /\ [][StaysClosed]_vars

\* A presale closed with refunds allowed, after a refund and a withdrawal.
C27_Witness ==
    /\ presale.is_closed
    /\ presale.refunds_allowed
    /\ refund_ok["u1"] = 1
    /\ withdrawn > 0

\* While the presale is not closed custody holds exactly total_contributions,
\* and neither withdraw_funds nor refund succeeds.
OpenCustody ==
    ~presale.is_closed =>
        /\ presale_usdt = presale.total_contributions
        /\ presale.is_initialized =>
                /\ withdraw_funds(presale, presale.owner, presale_usdt).err # Ok
                /\ \A user \in Users : refund(presale, user, presale_usdt).err # Ok

\* A step that raises custody is a contribute of that amount to an open
\* presale; a step that lowers it is a withdraw_funds or a refund of that
\* amount on a closed presale.
CustodyStep ==
    /\ presale_usdt' > presale_usdt =>
            /\ ~presale.is_closed
            /\ presale'.total_contributions - presale.total_contributions = presale_usdt' - presale_usdt
            /\ \E user \in Users : paid_in'[user] - paid_in[user] = presale_usdt' - presale_usdt
    /\ presale_usdt' < presale_usdt =>
            /\ presale.is_closed
            /\ \/ withdrawn' - withdrawn = presale_usdt - presale_usdt'
               \/ \E user \in Users : paid_out'[user] - paid_out[user] = presale_usdt - presale_usdt'

\* C28: with custody empty at the start and moved by the ledger's operations
\* only, in every reachable Presale state that is not closed the custody
\* balance equals total_contributions; custody grows only through contribute
\* and shrinks only through withdraw_funds and refund, which succeed only on
\* a closed presale.
C28_CustodyMatchesBooks == []OpenCustody /\ [][CustodyStep]_vars

\* An open presale that holds the contributions of two participants.
C28_Witness ==
    /\ presale.is_initialized
    /\ ~presale.is_closed
    /\ paid_in["u1"] = 1
    /\ paid_in["u2"] = 1
    /\ presale_usdt = 2

====
